---- MODULE Spec2Model ----
(***************************************************************************)
(* ElevenlabsSynthesizer (src/bolna/synthesizer/elevenlabs_synthesizer.py) *)
(* as a state machine.  One asyncio event loop runs push, the per-unit     *)
(* sender tasks, the generate/receiver generator pair, monitor_connection  *)
(* and cleanup; a coroutine runs without interruption from one await (or   *)
(* yield) to the next, so every action below is one such run.              *)
(*                                                                         *)
(* The service behind the websocket is outside the repository.  It is      *)
(* modelled as the spec describes the transport: it answers the units      *)
(* whose flush message it received, in the order received, with JSON       *)
(* frames (audio / isFinal), may send a frame nobody asked for, and may    *)
(* close the connection at any time.                                       *)
(*                                                                         *)
(* AzureTranscriber (src/bolna/transcriber/azure_transcriber.py) follows    *)
(* in its own section, with its own variables and specifications.          *)
(***************************************************************************)
EXTENDS Integers, Sequences, FiniteSets, TLC

\* ---------------------------------------------------------------- bounds
MaxUnits == 3
MaxFrames == 2
MaxExtra == 1
MaxCleanups == 2
LifeUnits == 2
LifeConns == 2
StreamUnits == 2
OrderUnits == 3
OrderFrames == 2
StreamConns == 1
ReconnectUnits == 2
ReconnectFrames == 1
ReconnectConns == 3
ReconnectCleanups == 1
CountUnits == 2
CountFrames == 1
CountConns == 2
CountCleanups == 1
CountCalls == 5
SendUnits == 2
SendConns == 1
SendCleanups == 1
WatchUnits == 1
WatchConns == 2
WatchCleanups == 1
CleanupUnits == 1
CleanupConns == 1
CleanupCalls == 2
FlushUnits == 1
FlushConns == 1
FlushCleanups == 1
TranscriberRuns == 2
TranscriberPackets == 3
TranscriberToggles == 1
TranscriberCleanups == 1

\* The texts a caller pushes: empty, one word, two words.
Texts == {<< >>, <<"a">>}
StreamTexts == {<<"a">>}
ReconnectTexts == {<<"a">>}
CountTexts == {<<"a">>, <<"a", "b">>}
SendTexts == {<< >>, <<"a", " ", "b">>}

VARIABLES
    \* fields of the synthesizer object
    first_chunk_generated, last_text_sent, text_queue, meta_info,
    synthesized_characters, websocket, sender_task,
    \* push in progress (between create_task and the queue append)
    pushPc, pushMsg, pushed,
    \* the sender tasks, one per pushed unit
    tasks,
    \* generate / receiver
    genPc, genMsg, pendingFinal, curUnit, curConn, results, recvOn,
    \* monitor_connection
    monPc, attempts,
    \* cleanup
    clPc, clTask, clStarted, clDone, clErr,
    \* the service side of the connection
    inbox, svcPending, framesMade, extraMade,
    \* a connection outside the holder that recv() is pending on
    orphan, orphanInbox, orphanPending,
    \* observers: what a specification records about the run (see Observe*)
    appended, popsFor, pushConn, clInflight, monLast, sent, ended,
    \* fields of the transcriber object
    push_stream, recognizer, send_audio_to_transcriber_task, audio_submitted,
    input_queue,
    \* what the push streams received, the send tasks, calls made so far
    written, sendTasks, runs, packets, tgPc, tgTask, tgDone, cleanups,
    closes, stops,
    \* observer of the send tasks (see ObserveTaken)
    taken

objVars == <<first_chunk_generated, last_text_sent, text_queue, meta_info,
             synthesized_characters, websocket, sender_task>>
pushVars == <<pushPc, pushMsg, pushed>>
genVars == <<genPc, genMsg, pendingFinal, curUnit, curConn, results, recvOn>>
monVars == <<monPc, attempts>>
clVars == <<clPc, clTask, clStarted, clDone, clErr>>
orphanVars == <<orphan, orphanInbox, orphanPending>>
svcVars == <<inbox, svcPending, framesMade, extraMade, orphanVars>>
obsVars == <<appended, popsFor, pushConn, clInflight, monLast, sent, ended>>
synthesizerVars ==
    <<objVars, pushVars, tasks, genVars, monVars, clVars, svcVars, obsVars>>
transcriberVars ==
    <<push_stream, recognizer, send_audio_to_transcriber_task, audio_submitted,
      input_queue, written, sendTasks, runs, packets, tgPc, tgTask, tgDone,
      cleanups, closes, stops, taken>>
vars == <<synthesizerVars, transcriberVars>>

Units == 1..MaxUnits

\* ------------------------------------------------------------- metadata
\* self.meta_info = None
NoMeta == [id |-> 0, eol |-> FALSE, first |-> FALSE, eos |-> FALSE]

\* The caller's meta_info dict of unit u: a correlation id and the
\* end_of_llm_stream flag; is_first_chunk and end_of_synthesizer_stream absent.
CallerMeta(u, eol) ==
    [id |-> u, eol |-> eol, first |-> FALSE, eos |-> FALSE]

\* self.websocket_holder = {"websocket": None}; a handle is a connection
\* object: its identity, whether the handshake message was sent on it, and
\* its .closed property, and whether close() has been called on it and is
\* still pending (the closing handshake: whether .closed is already true
\* then is the library's business, so both are possible).
NoHandle == [id |-> 0, bos |-> FALSE, closed |-> FALSE, closing |-> FALSE]

\* websocket is None or websocket.closed
Dead(h) == h.id = 0 \/ h.closed

\* ws.send(...) raises: AttributeError on None, ConnectionClosed on a closed one.
\* ConnectionClosed too on one that is being closed.
SendRaises(h) == Dead(h) \/ h.closing

\* ------------------------------------------------------------ chunking
RECURSIVE ChunkFrom(_, _)
ChunkFrom(text, buffer) ==
    IF text = << >>
    THEN (IF buffer = << >> THEN << >> ELSE <<buffer>>)
    ELSE IF Head(text) = " "
         THEN <<Append(buffer, " ")>> \o ChunkFrom(Tail(text), << >>)
         ELSE ChunkFrom(Tail(text), Append(buffer, Head(text)))

\* BaseSynthesizer.text_chunker: pieces that end at a word boundary.
text_chunker(text) == ChunkFrom(text, << >>)

\* ----------------------------------------------------------- scheduling
\* push has no await: from create_task to the queue append it holds the loop.
PushYieldsLoop == FALSE

PushHoldsLoop == pushPc = "created"

LoopFree == ~PushHoldsLoop

\* A sender task: where it is suspended ("wait": not yet run, or in the sleep
\* of line 64; "sending": in the await of a chunk's send, line 70;
\* "flushing": in the await of the flush message's send, line 81), the
\* chunks it has still to send, its end_of_llm_stream argument, whether
\* cancel() was called, and the connection its pending send went to.
NoTask == [pc |-> "none", left |-> << >>, eol |-> FALSE, cancel |-> FALSE,
           conn |-> 0]

\* A finished task: its locals are gone, only done() is ever asked of it.
DoneTask == [pc |-> "done", left |-> << >>, eol |-> FALSE, cancel |-> FALSE,
             conn |-> 0]

InFlight(t) == t.pc \in {"wait", "sending", "flushing"}

\* -------------------------------------------------------------- Init
Init ==
    /\ first_chunk_generated = FALSE
    /\ last_text_sent = FALSE
    /\ text_queue = << >>
    /\ meta_info = NoMeta
    /\ synthesized_characters = 0
    /\ websocket = NoHandle
    /\ sender_task = 0
    /\ pushPc = "idle"
    /\ pushMsg = NoMeta
    /\ pushed = 0
    /\ tasks = [u \in Units |-> NoTask]
    /\ genPc = "recv"
    /\ genMsg = "none"
    /\ pendingFinal = FALSE
    /\ curUnit = 0
    /\ curConn = 0
    /\ results = << >>
    /\ recvOn = 0
    /\ monPc = "check"
    /\ attempts = 0
    /\ clPc = "idle"
    /\ clTask = 0
    /\ clStarted = 0
    /\ clDone = 0
    /\ clErr = FALSE
    /\ inbox = << >>
    /\ svcPending = << >>
    /\ framesMade = 0
    /\ extraMade = 0
    /\ orphan = 0
    /\ orphanInbox = << >>
    /\ orphanPending = << >>
    /\ appended = [u \in Units |-> 0]
    /\ popsFor = [u \in 0..MaxUnits |-> 0]
    /\ pushConn = [u \in Units |-> 0]
    /\ clInflight = {}
    /\ monLast = "none"
    /\ sent = << >>
    /\ ended = [u \in Units |-> "no"]
    /\ push_stream = 0
    /\ recognizer = 0
    /\ send_audio_to_transcriber_task = 0
    /\ audio_submitted = FALSE
    /\ input_queue = << >>
    /\ written = << >>
    /\ sendTasks = [t \in 1..TranscriberRuns |-> [pc |-> "none", cancel |-> FALSE]]
    /\ runs = 0
    /\ packets = 0
    /\ tgPc = "idle"
    /\ tgTask = 0
    /\ tgDone = 0
    /\ cleanups = 0
    /\ closes = [s \in 1..TranscriberRuns |-> 0]
    /\ stops = [s \in 1..TranscriberRuns |-> 0]
    /\ taken = << >>

\* -------------------------------------------------------------- push
CountedUnit(text) == 1

\* Line 197: len(text) if text is not None else 0
Counted(text) == Len(text)

\* push, lines 196-202: count the characters, overwrite self.meta_info with a
\* deep copy of the caller's dict, add the text to the caller's dict, create
\* the sender task (which has not run yet).
PushCreate(eol, text) ==
    /\ LoopFree
    /\ pushPc = "idle"
    /\ LET u == pushed + 1 IN
        /\ pushed' = u
        /\ synthesized_characters' = synthesized_characters + Counted(text)
        /\ meta_info' = CallerMeta(u, eol)
        /\ pushMsg' = CallerMeta(u, eol)
        /\ tasks' = [tasks EXCEPT ![u] =
                        [pc |-> "wait", left |-> text_chunker(text),
                         eol |-> eol, cancel |-> FALSE, conn |-> 0]]
        /\ sender_task' = u
    /\ pushPc' = "created"
    /\ UNCHANGED <<first_chunk_generated, last_text_sent, text_queue, websocket>>
    /\ UNCHANGED <<genVars, monVars, clVars, svcVars>>

\* push, line 203: self.text_queue.append(meta_info)
PushAppend ==
    /\ pushPc = "created"
    /\ text_queue' = Append(text_queue, pushMsg)
    /\ pushPc' = "idle"
    /\ pushMsg' = NoMeta
    /\ UNCHANGED <<first_chunk_generated, last_text_sent, meta_info,
                   synthesized_characters, websocket, sender_task, pushed>>
    /\ UNCHANGED <<tasks, genVars, monVars, clVars, svcVars>>

\* ------------------------------------------------------------- sender
\* The flush message of unit u reached the service on the live connection.
Flushed(u) == Append(svcPending, u)

SenderFlushOmitted(u) ==
    /\ last_text_sent' = (last_text_sent \/ tasks[u].eol)
    /\ UNCHANGED svcPending
    /\ tasks' = [tasks EXCEPT ![u].pc = "flushing", ![u].conn = websocket.id]

\* Lines 75-81, reached with no chunk left to send: remember the end of the
\* upstream input and send the flush message; the task is then suspended in
\* the await of line 81.  A send that raises at once is logged (line 83)
\* and the task returns.
SenderFlush(u) ==
    /\ last_text_sent' = (last_text_sent \/ tasks[u].eol)
    /\ IF SendRaises(websocket)
       THEN /\ UNCHANGED svcPending
            /\ tasks' = [tasks EXCEPT ![u] = DoneTask]
       ELSE /\ svcPending' = Flushed(u)
            /\ tasks' = [tasks EXCEPT ![u].pc = "flushing",
                                      ![u].conn = websocket.id]

\* Lines 67-73: send the next chunk; an exception ends the task without a flush.
SenderChunk(u) ==
    /\ IF SendRaises(websocket)
       THEN tasks' = [tasks EXCEPT ![u] = DoneTask]
       ELSE tasks' = [tasks EXCEPT ![u].pc = "sending", ![u].left = Tail(@),
                                  ![u].conn = websocket.id]
    /\ UNCHANGED <<last_text_sent, svcPending>>

\* The connection that the pending send of task t went to is no longer
\* live: the awaited send may then end with ConnectionClosed instead of
\* returning (which of the two is the library's choice).
PendingLost(t) == websocket.id # t.conn \/ SendRaises(websocket)

\* Lines 71-73 for a chunk's send that was pending: the exception is
\* caught and the task returns, having sent no flush.
SenderPendingRaised(u) ==
    /\ tasks[u].pc = "sending"
    /\ PendingLost(tasks[u])
    /\ tasks' = [tasks EXCEPT ![u] = DoneTask]
    /\ UNCHANGED <<last_text_sent, svcPending>>

\* Line 81 onwards for the task suspended in the flush message's send: the
\* send returns, or raises and is logged (line 83); the task returns.
SenderReturn(u) ==
    /\ tasks' = [tasks EXCEPT ![u] = DoneTask]
    /\ UNCHANGED <<last_text_sent, svcPending>>

\* One run of sender task u between two suspension points.
SenderStep(u) ==
    /\ LoopFree
    /\ InFlight(tasks[u])
    /\ IF tasks[u].cancel
       THEN \* CancelledError at the suspension point (or before the first run)
            /\ tasks' = [tasks EXCEPT ![u] = DoneTask]
            /\ UNCHANGED <<last_text_sent, svcPending>>
       ELSE IF tasks[u].pc = "wait" /\ Dead(websocket)
       THEN \* lines 62-64: await asyncio.sleep(1)
            /\ UNCHANGED <<tasks, last_text_sent, svcPending>>
       ELSE IF tasks[u].pc = "flushing"
       THEN SenderReturn(u)
       ELSE \/ SenderPendingRaised(u)
            \/ IF tasks[u].left # << >>
               THEN SenderChunk(u)
               ELSE SenderFlush(u)
    /\ UNCHANGED <<first_chunk_generated, text_queue, meta_info,
                   synthesized_characters, websocket, sender_task>>
    /\ UNCHANGED <<pushVars, genVars, monVars, clVars>>
    /\ UNCHANGED <<inbox, framesMade, extraMade, orphanVars>>

\* ------------------------------------------------------------ service
\* A JSON frame from the service: has it an "audio" payload, is "isFinal"
\* set, does it parse, does its payload decode to the single byte 00; unit
\* is the unit the service made it for (0: none).
Frame(audio, final, ok, zero, u) ==
    [audio |-> audio, final |-> final, ok |-> ok, zero |-> zero, unit |-> u]

FrameKinds == {<<TRUE, FALSE, TRUE, FALSE>>, <<TRUE, TRUE, TRUE, FALSE>>,
               <<FALSE, TRUE, TRUE, FALSE>>, <<TRUE, FALSE, FALSE, FALSE>>,
               <<TRUE, FALSE, TRUE, TRUE>>, <<TRUE, TRUE, TRUE, TRUE>>}

\* The well-formed frames with an ordinary audio payload, final or not.
ReconnectKinds == {k \in FrameKinds : k[1] /\ k[3] /\ ~k[4]}

\* The well-formed final frames with an ordinary payload: audio, then the
\* sentinel.
CountKinds == {k \in ReconnectKinds : k[2]}

\* The frames that carry audio.
ExtraKinds == {k \in FrameKinds : k[1] /\ k[3]}

\* Line 93 (and line 62): the handle is present and .closed is false.
Open(h) == h.id # 0 /\ ~h.closed

\* The service answers the oldest unit whose flush it has received on a
\* connection with one more frame on that connection; a final frame, or the
\* choice last, completes the answer.  The connection is the one in the
\* holder, or (far) the one outside it that recv() is pending on.
ServiceFrame(k, last) ==
    /\ LoopFree
    /\ framesMade' = framesMade + 1
    /\ \E far \in BOOLEAN :
          IF far
          THEN /\ orphan # 0
               /\ orphanPending # << >>
               /\ orphanInbox' =
                     Append(orphanInbox,
                            Frame(k[1], k[2], k[3], k[4], Head(orphanPending)))
               /\ orphanPending' =
                     (IF k[2] \/ last THEN Tail(orphanPending) ELSE orphanPending)
               /\ UNCHANGED <<inbox, svcPending, orphan>>
          ELSE /\ Open(websocket)
               /\ svcPending # << >>
               /\ inbox' =
                     Append(inbox, Frame(k[1], k[2], k[3], k[4], Head(svcPending)))
               /\ svcPending' =
                     (IF k[2] \/ last THEN Tail(svcPending) ELSE svcPending)
               /\ UNCHANGED orphanVars
    /\ UNCHANGED extraMade
    /\ UNCHANGED <<objVars, pushVars, tasks, genVars, monVars, clVars>>

\* A frame that answers no unit (a trailing event, an answer to the handshake).
ServiceExtra(k) ==
    /\ LoopFree
    /\ extraMade' = extraMade + 1
    /\ \E far \in BOOLEAN :
          IF far
          THEN /\ orphan # 0
               /\ orphanInbox' =
                     Append(orphanInbox, Frame(k[1], k[2], k[3], k[4], 0))
               /\ UNCHANGED <<inbox, orphan, orphanPending>>
          ELSE /\ Open(websocket)
               /\ inbox' = Append(inbox, Frame(k[1], k[2], k[3], k[4], 0))
               /\ UNCHANGED orphanVars
    /\ UNCHANGED <<svcPending, framesMade>>
    /\ UNCHANGED <<objVars, pushVars, tasks, genVars, monVars, clVars>>

\* What closing does to a connection: .closed turns true, and what was in
\* flight on it is gone.  The service closes the connection in the holder,
\* or (far) the one outside it that recv() is pending on.
ServerClose ==
    /\ LoopFree
    /\ \E far \in BOOLEAN :
          IF far
          THEN /\ orphan # 0
               /\ orphan' = 0
               /\ orphanInbox' = << >>
               /\ orphanPending' = << >>
               /\ UNCHANGED <<websocket, inbox, svcPending>>
          ELSE /\ Open(websocket)
               /\ ~websocket.closing
               /\ websocket' = [websocket EXCEPT !.closed = TRUE]
               /\ inbox' = << >>
               /\ svcPending' = << >>
               /\ UNCHANGED orphanVars
    /\ UNCHANGED <<framesMade, extraMade>>
    /\ UNCHANGED <<first_chunk_generated, last_text_sent, text_queue, meta_info,
                   synthesized_characters, sender_task>>
    /\ UNCHANGED <<pushVars, tasks, genVars, monVars, clVars>>

\* ------------------------------------------------- generate / receiver
\* create_ws_data_packet(audio, self.meta_info): the payload with the
\* metadata as it is when the packet is made (and, for the record, the unit
\* and the connection of the frame it was made from).
create_ws_data_packet(data, meta) ==
    [id |-> meta.id, eol |-> meta.eol, first |-> meta.first, eos |-> meta.eos,
     data |-> data, unit |-> curUnit', conn |-> curConn']

\* generate, lines 129-141, for one message of receiver made from a frame of
\* unit u: dequeue if the queue is not empty, tag the format, yield a packet.
\* With self.meta_info still None the subscript raises TypeError, which the
\* except of line 157 catches outside the loop: generate returns.
ProcessMessage(msg, u, meta) ==
    LET popped == Len(text_queue) > 0
        active == IF popped THEN Head(text_queue) ELSE meta
    IN  /\ text_queue' = (IF popped THEN Tail(text_queue) ELSE text_queue)
        /\ meta_info' = active
        /\ curUnit' = u
        /\ IF active = NoMeta
           THEN /\ genPc' = "ended"
                /\ genMsg' = "none"
                /\ UNCHANGED results
           ELSE /\ genPc' = "y1"
                /\ genMsg' = msg
                /\ results' = Append(results, create_ws_data_packet(msg, active))

\* Lines 102-106: the chunk receiver yields is the decoded payload; the one
\* byte 00 is equal to the sentinel of line 109, whatever frame it came in.
Decoded(f) == IF f.zero THEN "null" ELSE "audio"

\* receiver, lines 93-98, with no frame waiting on the connection in the
\* holder: recv() is called on that connection and suspends.  From here on
\* receiver waits on this connection object, whatever the holder becomes.
GenWait ==
    /\ LoopFree
    /\ genPc = "recv"
    /\ recvOn = 0
    /\ Open(websocket)
    /\ inbox = << >>
    /\ recvOn' = websocket.id
    /\ UNCHANGED <<genPc, genMsg, pendingFinal, curUnit, curConn, results>>
    /\ UNCHANGED <<objVars, pushVars, tasks, monVars, clVars, svcVars>>

\* The pending recv() is on the connection outside the holder.
RecvFar == recvOn # 0 /\ recvOn = orphan

\* The frames recv() can return: those of the connection in the holder as
\* line 93 finds it, or those of the connection the pending recv() was
\* called on.
RecvFrames ==
    IF RecvFar THEN orphanInbox
    ELSE IF (recvOn = 0 /\ Open(websocket)) \/ (recvOn # 0 /\ recvOn = websocket.id)
    THEN inbox
    ELSE << >>

\* receiver, lines 93-111: recv() returns a frame, at once when one is
\* waiting on the connection in the holder as line 93 finds it, or to the
\* recv() that was pending on the connection it was called on (which the
\* holder need no longer hold).  Nothing reads a connection outside the
\* holder once the recv() pending on it has returned.
GenRecv ==
    /\ LoopFree
    /\ genPc = "recv"
    /\ RecvFrames # << >>
    /\ IF RecvFar
       THEN /\ orphan' = 0
            /\ orphanInbox' = << >>
            /\ orphanPending' = << >>
            /\ UNCHANGED inbox
       ELSE /\ inbox' = Tail(inbox)
            /\ UNCHANGED orphanVars
    /\ recvOn' = 0
    /\ LET f == Head(RecvFrames) IN
        IF f.ok /\ f.audio
        THEN /\ curConn' = (IF recvOn # 0 THEN recvOn ELSE websocket.id)
             /\ ProcessMessage(Decoded(f), f.unit, meta_info)
             /\ pendingFinal' = f.final
        ELSE \* json.loads raised, or "No audio data in the response"
             UNCHANGED <<text_queue, meta_info, genPc, genMsg, pendingFinal,
                         curUnit, curConn, results>>
    /\ UNCHANGED <<first_chunk_generated, last_text_sent, synthesized_characters,
                   websocket, sender_task>>
    /\ UNCHANGED <<svcPending, framesMade, extraMade>>
    /\ UNCHANGED <<pushVars, tasks, monVars, clVars>>

\* receiver, lines 98 and 116-118: the pending recv() raises ConnectionClosed
\* because its connection is closed; the error is logged and, after the
\* sleep, the loop starts again at line 93.
GenRecvRaises ==
    /\ LoopFree
    /\ genPc = "recv"
    /\ recvOn # 0
    /\ ~RecvFar
    /\ ~(recvOn = websocket.id /\ Open(websocket))
    /\ recvOn' = 0
    /\ UNCHANGED <<genPc, genMsg, pendingFinal, curUnit, curConn, results>>
    /\ UNCHANGED <<objVars, pushVars, tasks, monVars, clVars, svcVars>>

\* generate resumed after the yield of line 141: lines 142-155, then back
\* to receiver, which yields the sentinel at once after a final frame.
GenResume1 ==
    /\ LoopFree
    /\ genPc = "y1"
    /\ UNCHANGED <<recvOn, curConn>>
    /\ LET flagged == IF first_chunk_generated THEN meta_info
                      ELSE [meta_info EXCEPT !.first = TRUE]
           fcg == IF last_text_sent THEN FALSE ELSE TRUE
       IN  IF genMsg = "null"
           THEN /\ meta_info' = [flagged EXCEPT !.eos = TRUE]
                /\ curUnit' = curUnit
                /\ results' = Append(results,
                                 create_ws_data_packet("null", meta_info'))
                /\ first_chunk_generated' = fcg
                /\ genPc' = "y2"
                /\ UNCHANGED <<genMsg, pendingFinal, text_queue>>
           ELSE /\ first_chunk_generated' = fcg
                /\ IF pendingFinal
                   THEN /\ pendingFinal' = FALSE
                        /\ ProcessMessage("null", curUnit, flagged)
                   ELSE /\ meta_info' = flagged
                        /\ genPc' = "recv"
                        /\ genMsg' = "none"
                        /\ UNCHANGED <<pendingFinal, curUnit, results, text_queue>>
    /\ UNCHANGED <<last_text_sent, synthesized_characters, websocket, sender_task>>
    /\ UNCHANGED <<pushVars, tasks, monVars, clVars, svcVars>>

\* generate resumed after the yield of line 154: line 155, then back to
\* receiver, which yields the sentinel at once when the chunk came in a
\* final frame.
GenResume2 ==
    /\ LoopFree
    /\ genPc = "y2"
    /\ UNCHANGED <<recvOn, curConn>>
    /\ first_chunk_generated' = FALSE
    /\ IF pendingFinal
       THEN /\ pendingFinal' = FALSE
            /\ ProcessMessage("null", curUnit, meta_info)
       ELSE /\ genPc' = "recv"
            /\ genMsg' = "none"
            /\ UNCHANGED <<pendingFinal, curUnit, results, text_queue,
                           meta_info>>
    /\ UNCHANGED <<last_text_sent, synthesized_characters, websocket,
                   sender_task>>
    /\ UNCHANGED <<pushVars, tasks, monVars, clVars, svcVars>>

\* -------------------------------------------------- monitor_connection
\* Line 185, the supervisor's check: reconnect only when the handle is
\* None or closed; otherwise go to the sleep of line 188.
NeedsReconnectAlways(h) == TRUE

NeedsReconnectNever(h) == FALSE

NeedsReconnect(h) == Dead(h)

MonitorCheck ==
    /\ LoopFree
    /\ monPc = "check"
    /\ IF NeedsReconnect(websocket)
       THEN /\ attempts' = attempts + 1
            /\ monPc' = "connecting"
       ELSE /\ monPc' = "sleep"
            /\ UNCHANGED attempts
    /\ UNCHANGED <<objVars, pushVars, tasks, genVars, clVars, svcVars>>

\* establish_connection, line 166: websockets.connect returns or raises; a
\* failure makes establish_connection return None, which line 187 installs.
MonitorConnect(ok) ==
    /\ LoopFree
    /\ monPc = "connecting"
    /\ IF ok
       THEN /\ monPc' = "handshake"
            /\ UNCHANGED <<websocket, inbox, svcPending>>
       ELSE /\ monPc' = "sleep"
            /\ websocket' = NoHandle
            /\ inbox' = << >>
            /\ svcPending' = << >>
    /\ UNCHANGED attempts
    /\ UNCHANGED <<first_chunk_generated, last_text_sent, text_queue, meta_info,
                   synthesized_characters, sender_task>>
    /\ UNCHANGED <<framesMade, extraMade, orphanVars>>
    /\ UNCHANGED <<pushVars, tasks, genVars, clVars>>

\* The handle that line 187 stores when establish_connection returned the
\* websocket: the connection of this attempt, after its handshake message.
Installed(n) == [id |-> n, bos |-> TRUE, closed |-> FALSE, closing |-> FALSE]

\* establish_connection, lines 175-180, and the assignment of line 187.
\* Nothing else is touched: a connection outside the holder stays as it is.
MonitorInstall(ok) ==
    /\ LoopFree
    /\ monPc = "handshake"
    /\ websocket' = (IF ok THEN Installed(attempts) ELSE NoHandle)
    /\ inbox' = << >>
    /\ svcPending' = << >>
    /\ monPc' = "sleep"
    /\ UNCHANGED attempts
    /\ UNCHANGED <<first_chunk_generated, last_text_sent, text_queue, meta_info,
                   synthesized_characters, sender_task>>
    /\ UNCHANGED <<framesMade, extraMade, orphanVars>>
    /\ UNCHANGED <<pushVars, tasks, genVars, clVars>>

\* Line 188: the sleep ends.
MonitorWake ==
    /\ LoopFree
    /\ monPc = "sleep"
    /\ monPc' = "check"
    /\ UNCHANGED attempts
    /\ UNCHANGED <<objVars, pushVars, tasks, genVars, clVars, svcVars>>

\* ------------------------------------------------------------- cleanup
TruthyAlways(h) == TRUE

\* Line 216: if self.websocket_holder["websocket"]
Truthy(h) == h.id # 0

\* Lines 216-218 up to the next suspension: close the handle if there is
\* one (the await of close() suspends; .closed is true at once, or only
\* when close() is over), else clear the holder and return.
\* Calling close() on None would raise AttributeError out of cleanup.
CloseOrClear ==
    IF Truthy(websocket)
    THEN IF websocket.id = 0
         THEN /\ clErr' = TRUE
              /\ clPc' = "idle"
              /\ UNCHANGED <<websocket, inbox, svcPending, clDone>>
         ELSE /\ \E late \in BOOLEAN :
                    IF late /\ ~websocket.closed
                    THEN /\ websocket' = [websocket EXCEPT !.closing = TRUE]
                         /\ UNCHANGED <<inbox, svcPending>>
                    ELSE /\ websocket' = [websocket EXCEPT !.closed = TRUE]
                         /\ inbox' = << >>
                         /\ svcPending' = << >>
              /\ clPc' = "closing"
              /\ UNCHANGED <<clDone, clErr>>
    ELSE /\ websocket' = NoHandle
         /\ clPc' = "idle"
         /\ clDone' = clDone + 1
         /\ UNCHANGED <<inbox, svcPending, clErr>>

\* Line 209: the task cleanup cancels and awaits, 0 when there is none to.
ToCancel == IF sender_task # 0 /\ tasks[sender_task].pc # "done" THEN {sender_task} ELSE {}

\* cleanup, lines 208-212 (and on to 216-218 when there is no task to await).
CleanupStart ==
    /\ LoopFree
    /\ clPc = "idle"
    /\ clStarted' = clStarted + 1
    /\ IF ToCancel # {}
       THEN /\ tasks' = [u \in Units |->
                           IF u \in ToCancel THEN [tasks[u] EXCEPT !.cancel = TRUE]
                           ELSE tasks[u]]
            /\ clTask' = sender_task
            /\ clPc' = "awaitSender"
            /\ UNCHANGED <<websocket, inbox, svcPending, clDone, clErr>>
       ELSE /\ CloseOrClear
            /\ UNCHANGED <<tasks, clTask>>
    /\ UNCHANGED <<first_chunk_generated, last_text_sent, text_queue, meta_info,
                   synthesized_characters, sender_task>>
    /\ UNCHANGED <<framesMade, extraMade, orphanVars>>
    /\ UNCHANGED <<pushVars, genVars, monVars>>

\* cleanup resumed at line 212 once the awaited task has finished.
CleanupResume ==
    /\ LoopFree
    /\ clPc = "awaitSender"
    /\ \A u \in Units : tasks[u].cancel => tasks[u].pc = "done"
    /\ CloseOrClear
    /\ UNCHANGED <<clTask, clStarted>>
    /\ UNCHANGED <<first_chunk_generated, last_text_sent, text_queue, meta_info,
                   synthesized_characters, sender_task>>
    /\ UNCHANGED <<framesMade, extraMade, orphanVars>>
    /\ UNCHANGED <<pushVars, tasks, genVars, monVars>>

\* The close() that cleanup awaits at line 217 is over: .closed is true on
\* the handle, and what was in flight on it is gone.  cleanup itself
\* resumes in a later turn of the event loop.
CloseEnds ==
    /\ LoopFree
    /\ clPc = "closing"
    /\ websocket.closing
    /\ websocket' = [websocket EXCEPT !.closed = TRUE, !.closing = FALSE]
    /\ inbox' = << >>
    /\ svcPending' = << >>
    /\ UNCHANGED <<framesMade, extraMade, orphanVars>>
    /\ UNCHANGED <<first_chunk_generated, last_text_sent, text_queue, meta_info,
                   synthesized_characters, sender_task>>
    /\ UNCHANGED <<pushVars, tasks, genVars, monVars, clVars>>

\* cleanup resumed after the await of line 217, once close() is over: line
\* 218.  A connection installed in the meantime is taken out of the holder
\* as it is, open: a recv() pending on it goes on waiting for its frames,
\* and nothing else will read it.
CleanupClear ==
    /\ LoopFree
    /\ clPc = "closing"
    /\ ~websocket.closing
    /\ websocket' = NoHandle
    /\ IF Open(websocket) /\ recvOn = websocket.id
       THEN /\ orphan' = websocket.id
            /\ orphanInbox' = inbox
            /\ orphanPending' = svcPending
       ELSE UNCHANGED orphanVars
    /\ inbox' = << >>
    /\ svcPending' = << >>
    /\ clPc' = "idle"
    /\ clDone' = clDone + 1
    /\ UNCHANGED <<clTask, clStarted, clErr>>
    /\ UNCHANGED <<first_chunk_generated, last_text_sent, text_queue, meta_info,
                   synthesized_characters, sender_task>>
    /\ UNCHANGED <<framesMade, extraMade>>
    /\ UNCHANGED <<pushVars, tasks, genVars, monVars>>

\* ---------------------------------------------------------- observers
\* What a specification records about a step, read off the step itself.

\* popsFor[u]: the entries generate has dequeued while handling the
\* messages made from the frames the service sent for unit u.
ObservePops ==
    popsFor' = IF Len(text_queue') < Len(text_queue)
               THEN [popsFor EXCEPT ![curUnit'] = @ + 1]
               ELSE popsFor

\* pushConn[u]: the connection the holder held when unit u was pushed.
ObservePushConn ==
    pushConn' = IF pushed' # pushed
                THEN [pushConn EXCEPT ![pushed'] = websocket.id]
                ELSE pushConn

\* appended[u]: how many records of unit u have been appended to text_queue.
ObserveAppended ==
    appended' = IF Len(text_queue') > Len(text_queue)
                THEN [appended EXCEPT ![text_queue'[Len(text_queue')].id] = @ + 1]
                ELSE appended

\* clInflight: the sender tasks in flight when the latest cleanup began.
ObserveCleanup ==
    clInflight' = IF clStarted' # clStarted
                  THEN {u \in Units : InFlight(tasks[u])}
                  ELSE clInflight

\* monLast: what the supervisor's latest check found.
ObserveMonitor ==
    monLast' = IF monPc = "check" /\ monPc' # "check"
               THEN (IF monPc' = "sleep" THEN "live" ELSE "dead")
               ELSE monLast

\* sent: the messages that reached a connection, in the order of the sends:
\* the unit, and whether it is one of its text chunks or its flush message.
ObserveSent ==
    sent' =
        IF \E u \in Units : /\ InFlight(tasks[u])
                             /\ tasks'[u].pc = "sending"
                             /\ tasks'[u].left # tasks[u].left
        THEN Append(sent,
                    [unit |-> CHOOSE u \in Units : /\ InFlight(tasks[u])
                                                  /\ tasks'[u].pc = "sending"
                                                  /\ tasks'[u].left # tasks[u].left,
                     kind |-> "chunk"])
        ELSE IF Len(svcPending') > Len(svcPending)
        THEN Append(sent, [unit |-> svcPending'[Len(svcPending')], kind |-> "flush"])
        ELSE sent

\* ended[u]: how the sender task of unit u came to its end: cancelled, by a
\* send that raised (the only way out of lines 62-81 short of the flush
\* message's await), or by returning after the flush message's send.
ObserveEnded ==
    ended' = [u \in Units |->
                IF InFlight(tasks[u]) /\ tasks'[u].pc = "done"
                THEN (IF tasks[u].cancel THEN "cancelled"
                      ELSE IF tasks[u].pc = "flushing" THEN "completed"
                      ELSE "failed")
                ELSE ended[u]]

\* --------------------------------------------------------------- Next
\* The result path over a connection that stays up: units are pushed, sent,
\* answered by the service and emitted by generate.
Stream(A) ==
    /\ A
    /\ ObservePops
    /\ UNCHANGED <<appended, pushConn, clInflight, monLast, sent, ended>>
    /\ UNCHANGED transcriberVars

NextStream ==
    \/ \E eol \in BOOLEAN, text \in StreamTexts :
          pushed < StreamUnits /\ Stream(PushCreate(eol, text))
    \/ Stream(PushAppend)
    \/ \E u \in Units : Stream(SenderStep(u))
    \/ \E k \in FrameKinds, last \in BOOLEAN :
          framesMade < MaxFrames /\ Stream(ServiceFrame(k, last))
    \/ \E k \in ExtraKinds : extraMade < MaxExtra /\ Stream(ServiceExtra(k))
    \/ Stream(GenWait)
    \/ Stream(GenRecv)
    \/ Stream(GenResume1)
    \/ Stream(GenResume2)
    \/ attempts < StreamConns /\ Stream(MonitorCheck)
    \/ \E ok \in BOOLEAN : Stream(MonitorConnect(ok))
    \/ \E ok \in BOOLEAN : Stream(MonitorInstall(ok))

SpecStream == Init /\ [][NextStream]_vars

\* The result path with three units in the queue: no unit ends the upstream
\* input and the service sends nothing it was not asked for.
NextOrder ==
    \/ \E eol \in {FALSE}, text \in StreamTexts :
          pushed < OrderUnits /\ Stream(PushCreate(eol, text))
    \/ Stream(PushAppend)
    \/ \E u \in Units : Stream(SenderStep(u))
    \/ \E k \in FrameKinds, last \in BOOLEAN :
          framesMade < OrderFrames /\ Stream(ServiceFrame(k, last))
    \/ Stream(GenWait)
    \/ Stream(GenRecv)
    \/ Stream(GenResume1)
    \/ Stream(GenResume2)
    \/ attempts < StreamConns /\ Stream(MonitorCheck)
    \/ \E ok \in BOOLEAN : Stream(MonitorConnect(ok))
    \/ \E ok \in BOOLEAN : Stream(MonitorInstall(ok))

SpecOrder == Init /\ [][NextOrder]_vars

\* The result path over a connection that the service closes and the
\* supervisor replaces.
Reconnect(A) ==
    /\ A
    /\ ObservePushConn
    /\ UNCHANGED <<appended, popsFor, clInflight, monLast, sent, ended>>
    /\ UNCHANGED transcriberVars

NextReconnect ==
    \/ \E eol \in {FALSE}, text \in ReconnectTexts :
          pushed < ReconnectUnits /\ Reconnect(PushCreate(eol, text))
    \/ Reconnect(PushAppend)
    \/ \E u \in Units : Reconnect(SenderStep(u))
    \/ \E k \in ReconnectKinds, last \in BOOLEAN :
          framesMade < ReconnectFrames /\ Reconnect(ServiceFrame(k, last))
    \/ attempts < ReconnectConns /\ Reconnect(ServerClose)
    \/ Reconnect(GenWait)
    \/ Reconnect(GenRecv)
    \/ Reconnect(GenRecvRaises)
    \/ Reconnect(GenResume1)
    \/ Reconnect(GenResume2)
    \/ (Dead(websocket) => attempts < ReconnectConns) /\ Reconnect(MonitorCheck)
    \/ \E ok \in BOOLEAN : Reconnect(MonitorConnect(ok))
    \/ \E ok \in BOOLEAN : Reconnect(MonitorInstall(ok))
    \/ Reconnect(MonitorWake)
    \/ clStarted < ReconnectCleanups /\ Reconnect(CleanupStart)
    \/ Reconnect(CleanupResume)
    \/ Reconnect(CloseEnds)
    \/ Reconnect(CleanupClear)

SpecReconnect == Init /\ [][NextReconnect]_vars

\* The whole synthesizer beside the submitted-characters counter: pushes of
\* texts of different lengths, their sender tasks, the service's answers,
\* generate, the loss and replacement of the connection, and cleanup.
\* A run makes at most CountCalls pushes, connection attempts, service
\* frames and cleanup calls in all.
Count(A) ==
    /\ A
    /\ UNCHANGED obsVars
    /\ UNCHANGED transcriberVars

NextCount ==
    \/ \E eol \in {FALSE}, text \in CountTexts :
          /\ pushed < CountUnits
          /\ pushed + attempts + framesMade + clStarted < CountCalls
          /\ Count(PushCreate(eol, text))
    \/ Count(PushAppend)
    \/ \E u \in Units : Count(SenderStep(u))
    \/ \E k \in CountKinds, last \in {TRUE} :
          /\ framesMade < CountFrames
          /\ pushed + attempts + framesMade + clStarted < CountCalls
          /\ Count(ServiceFrame(k, last))
    \/ attempts < CountConns /\ Count(ServerClose)
    \/ Count(GenWait)
    \/ Count(GenRecv)
    \/ Count(GenRecvRaises)
    \/ Count(GenResume1)
    \/ Count(GenResume2)
    \/ /\ Dead(websocket) =>
             /\ attempts < CountConns
             /\ pushed + attempts + framesMade + clStarted < CountCalls
       /\ Count(MonitorCheck)
    \/ \E ok \in BOOLEAN : Count(MonitorConnect(ok))
    \/ \E ok \in BOOLEAN : Count(MonitorInstall(ok))
    \/ Count(MonitorWake)
    \/ /\ clStarted < CountCleanups
       /\ pushed + attempts + framesMade + clStarted < CountCalls
       /\ Count(CleanupStart)
    \/ Count(CleanupResume)
    \/ Count(CloseEnds)
    \/ Count(CleanupClear)

SpecCount == Init /\ [][NextCount]_vars

\* The lifecycle: pushes and their sender tasks, the supervisor, the service
\* closing the connection, and cleanup.
Life(A) ==
    /\ A
    /\ ObserveAppended
    /\ ObserveCleanup
    /\ ObserveMonitor
    /\ UNCHANGED <<popsFor, pushConn, sent, ended>>
    /\ UNCHANGED transcriberVars

NextLife ==
    \/ \E eol \in BOOLEAN, text \in Texts :
          pushed < LifeUnits /\ Life(PushCreate(eol, text))
    \/ Life(PushAppend)
    \/ \E u \in Units : Life(SenderStep(u))
    \/ Life(ServerClose)
    \/ (Dead(websocket) => attempts < LifeConns) /\ Life(MonitorCheck)
    \/ \E ok \in BOOLEAN : Life(MonitorConnect(ok))
    \/ \E ok \in BOOLEAN : Life(MonitorInstall(ok))
    \/ Life(MonitorWake)
    \/ clStarted < MaxCleanups /\ Life(CleanupStart)
    \/ Life(CleanupResume)
    \/ Life(CloseEnds)
    \/ Life(CleanupClear)

SpecLife == Init /\ [][NextLife]_vars

\* Cleanup called again and again, beside one pushed unit and the
\* supervisor.
NextCleanup ==
    \/ \E eol \in BOOLEAN, text \in Texts :
          pushed < CleanupUnits /\ Life(PushCreate(eol, text))
    \/ Life(PushAppend)
    \/ \E u \in Units : Life(SenderStep(u))
    \/ Life(ServerClose)
    \/ (Dead(websocket) => attempts < CleanupConns) /\ Life(MonitorCheck)
    \/ \E ok \in BOOLEAN : Life(MonitorConnect(ok))
    \/ \E ok \in BOOLEAN : Life(MonitorInstall(ok))
    \/ Life(MonitorWake)
    \/ clStarted < CleanupCalls /\ Life(CleanupStart)
    \/ Life(CleanupResume)
    \/ Life(CloseEnds)
    \/ Life(CleanupClear)

SpecCleanup == Init /\ [][NextCleanup]_vars

\* The submission path: units are pushed and sent while the connection comes
\* and goes and cleanup cancels the latest sender task.
Send(A) ==
    /\ A
    /\ ObserveSent
    /\ ObserveEnded
    /\ UNCHANGED <<appended, popsFor, pushConn, clInflight, monLast>>
    /\ UNCHANGED transcriberVars

NextSend ==
    \/ \E eol \in {FALSE}, text \in SendTexts :
          pushed < SendUnits /\ Send(PushCreate(eol, text))
    \/ Send(PushAppend)
    \/ \E u \in Units : Send(SenderStep(u))
    \/ Send(ServerClose)
    \/ (Dead(websocket) => attempts < SendConns) /\ Send(MonitorCheck)
    \/ \E ok \in BOOLEAN : Send(MonitorConnect(ok))
    \/ \E ok \in BOOLEAN : Send(MonitorInstall(ok))
    \/ Send(MonitorWake)
    \/ clStarted < SendCleanups /\ Send(CleanupStart)
    \/ Send(CleanupResume)
    \/ Send(CloseEnds)
    \/ Send(CleanupClear)

SpecSend == Init /\ [][NextSend]_vars

\* The submission path of one unit, from its push to the end of its sender
\* task.
NextFlush ==
    \/ \E eol \in {FALSE}, text \in SendTexts :
          pushed < FlushUnits /\ Send(PushCreate(eol, text))
    \/ Send(PushAppend)
    \/ \E u \in Units : Send(SenderStep(u))
    \/ Send(ServerClose)
    \/ (Dead(websocket) => attempts < FlushConns) /\ Send(MonitorCheck)
    \/ \E ok \in BOOLEAN : Send(MonitorConnect(ok))
    \/ \E ok \in BOOLEAN : Send(MonitorInstall(ok))
    \/ Send(MonitorWake)
    \/ clStarted < FlushCleanups /\ Send(CleanupStart)
    \/ Send(CleanupResume)
    \/ Send(CloseEnds)
    \/ Send(CleanupClear)

SpecFlush == Init /\ [][NextFlush]_vars

\* The supervisor beside one pushed unit, the loss of connections and one
\* cleanup.
NextWatch ==
    \/ \E eol \in BOOLEAN, text \in Texts :
          pushed < WatchUnits /\ Life(PushCreate(eol, text))
    \/ Life(PushAppend)
    \/ \E u \in Units : Life(SenderStep(u))
    \/ Life(ServerClose)
    \/ (Dead(websocket) => attempts < WatchConns) /\ Life(MonitorCheck)
    \/ \E ok \in BOOLEAN : Life(MonitorConnect(ok))
    \/ \E ok \in BOOLEAN : Life(MonitorInstall(ok))
    \/ Life(MonitorWake)
    \/ clStarted < WatchCleanups /\ Life(CleanupStart)
    \/ Life(CleanupResume)
    \/ Life(CloseEnds)
    \/ Life(CleanupClear)

SpecWatch == Init /\ [][NextWatch]_vars

\* The supervisor is one task of the event loop: whichever of its steps is
\* due is eventually run, and push, which has no await, runs to its end.
WatchMonitor ==
    \/ (Dead(websocket) => attempts < WatchConns) /\ Life(MonitorCheck)
    \/ \E ok \in BOOLEAN : Life(MonitorConnect(ok))
    \/ \E ok \in BOOLEAN : Life(MonitorInstall(ok))
    \/ Life(MonitorWake)

SpecWatchFair ==
    Init /\ [][NextWatch]_vars /\ WF_vars(WatchMonitor) /\ WF_vars(Life(PushAppend))

\* ==================================================== AzureTranscriber
\* AzureTranscriber (src/bolna/transcriber/azure_transcriber.py).  The
\* caller puts packets on input_queue; every run() starts one
\* send_audio_to_transcriber task on the event loop; cleanup is a plain
\* (synchronous) method, run has no suspension point (the SDK calls inside
\* initialize_connection block), and toggle_connection suspends only while
\* it awaits the task it cancelled.
\*
\* A push stream or recognizer is named by the number of the run() that
\* created it; 0 is None.  The payload of packet n is n, or 0 when the
\* packet carries no data.
Absent == 0
RunIds == 1..TranscriberRuns

\* How initialize_connection ends: every statement succeeds ("ok"), one of
\* lines 82-93 raises before the push stream exists ("early"), or the
\* recognizer's construction raises after the push stream was stored
\* ("mid").  The except clause of lines 123-124 swallows the exception.
InitModes == {"ok", "early", "mid"}

\* ws_data_packet.get('data') as a condition.
HasData(p) == p.data # 0

\* _check_and_process_end_of_stream's test of meta_info['eos'].
EndOfStream(p) == p.eos

\* No send task is between two packets of a non-empty queue: Queue.get()
\* on a non-empty queue returns without suspending, so such a task keeps
\* the event loop.
TranscriberLoopFree == \A t \in RunIds : sendTasks[t].pc # "running"

\* cleanup(), lines 220-239: close and forget the push stream, stop and
\* forget the recognizer; each only when the field is set.
CleanupEffect ==
    /\ closes' = IF push_stream # Absent
                 THEN [closes EXCEPT ![push_stream] = @ + 1] ELSE closes
    /\ push_stream' = Absent
    /\ stops' = IF recognizer # Absent
                THEN [stops EXCEPT ![recognizer] = @ + 1] ELSE stops
    /\ recognizer' = Absent

\* run(), lines 45-50, with initialize_connection, lines 80-124.
Run(mode) ==
    /\ TranscriberLoopFree
    /\ runs' = runs + 1
    /\ push_stream' = IF mode \in {"ok", "mid"} THEN runs + 1 ELSE push_stream
    /\ recognizer' = IF mode = "ok" THEN runs + 1 ELSE recognizer
    /\ sendTasks' = [sendTasks EXCEPT ![runs + 1] =
                        [pc |-> "waiting", cancel |-> FALSE]]
    /\ send_audio_to_transcriber_task' = runs + 1
    /\ UNCHANGED <<audio_submitted, input_queue, written, packets, tgPc,
                   tgTask, tgDone, cleanups, closes, stops>>

\* The caller puts one packet on the input queue.
Put(data, eos) ==
    /\ TranscriberLoopFree
    /\ packets' = packets + 1
    /\ input_queue' = Append(input_queue,
                             [id |-> packets + 1,
                              data |-> IF data THEN packets + 1 ELSE 0,
                              eos |-> eos])
    /\ UNCHANGED <<push_stream, recognizer, send_audio_to_transcriber_task,
                   audio_submitted, written, sendTasks, runs, tgPc, tgTask,
                   tgDone, cleanups, closes, stops>>

\* Where the loop of send_audio_to_transcriber stands after a packet that
\* did not end it.
AfterPacket(rest) ==
    [pc |-> IF rest = << >> THEN "waiting" ELSE "running", cancel |-> FALSE]

\* One turn of send_audio_to_transcriber, lines 59-78, for the task that
\* run number t started.  A cancelled task ends at its await with
\* CancelledError, which the except clause of line 76 does not catch.  A
\* write on an absent push stream raises AttributeError, which that clause
\* catches outside the loop, so the task ends.
SendAudio(t) ==
    /\ sendTasks[t].pc \in {"waiting", "running"}
    /\ \A o \in RunIds \ {t} : sendTasks[o].pc # "running"
    /\ IF sendTasks[t].cancel
       THEN /\ sendTasks' = [sendTasks EXCEPT ![t] =
                                [pc |-> "done", cancel |-> TRUE]]
            /\ UNCHANGED <<push_stream, recognizer, audio_submitted,
                           input_queue, written, closes, stops>>
       ELSE /\ input_queue # << >>
            /\ input_queue' = Tail(input_queue)
            /\ audio_submitted' = TRUE
            /\ LET p == Head(input_queue) IN
               IF EndOfStream(p)
               THEN /\ CleanupEffect
                    /\ sendTasks' = [sendTasks EXCEPT ![t].pc = "done"]
                    /\ UNCHANGED written
               ELSE IF HasData(p)
               THEN IF push_stream = Absent
                    THEN /\ sendTasks' = [sendTasks EXCEPT ![t].pc = "done"]
                         /\ UNCHANGED <<push_stream, recognizer, written,
                                        closes, stops>>
                    ELSE /\ written' = Append(written,
                                              [data |-> p.data,
                                               stream |-> push_stream])
                         /\ sendTasks' = [sendTasks EXCEPT ![t] =
                                             AfterPacket(Tail(input_queue))]
                         /\ UNCHANGED <<push_stream, recognizer, closes,
                                        stops>>
               ELSE /\ sendTasks' = [sendTasks EXCEPT ![t] =
                                        AfterPacket(Tail(input_queue))]
                    /\ UNCHANGED <<push_stream, recognizer, written, closes,
                                   stops>>
    /\ UNCHANGED <<send_audio_to_transcriber_task, runs, packets, tgPc,
                   tgTask, tgDone, cleanups>>

\* toggle_connection, lines 207-218, up to its await: with a task stored it
\* cancels it and awaits it; awaiting a task that already ended does not
\* suspend, and without a task cleanup follows at once.
ToggleStart ==
    /\ TranscriberLoopFree
    /\ tgPc = "idle"
    /\ IF /\ send_audio_to_transcriber_task # 0
          /\ sendTasks[send_audio_to_transcriber_task].pc # "done"
       THEN /\ sendTasks' = [sendTasks EXCEPT
                                ![send_audio_to_transcriber_task].cancel = TRUE]
            /\ tgPc' = "await"
            /\ tgTask' = send_audio_to_transcriber_task
            /\ UNCHANGED <<push_stream, recognizer,
                           send_audio_to_transcriber_task, tgDone, closes,
                           stops>>
       ELSE /\ send_audio_to_transcriber_task' = 0
            /\ CleanupEffect
            /\ tgDone' = tgDone + 1
            /\ UNCHANGED <<sendTasks, tgPc, tgTask>>
    /\ UNCHANGED <<audio_submitted, input_queue, written, runs, packets,
                   cleanups>>

\* toggle_connection after the awaited task ended: forget the task, then
\* cleanup.
ToggleResume ==
    /\ TranscriberLoopFree
    /\ tgPc = "await"
    /\ sendTasks[tgTask].pc = "done"
    /\ send_audio_to_transcriber_task' = 0
    /\ CleanupEffect
    /\ tgPc' = "idle"
    /\ tgTask' = 0
    /\ tgDone' = tgDone + 1
    /\ UNCHANGED <<audio_submitted, input_queue, written, sendTasks, runs,
                   packets, cleanups>>

\* cleanup() called by the owner of the transcriber.
Cleanup ==
    /\ TranscriberLoopFree
    /\ CleanupEffect
    /\ cleanups' = cleanups + 1
    /\ UNCHANGED <<send_audio_to_transcriber_task, audio_submitted,
                   input_queue, written, sendTasks, runs, packets, tgPc,
                   tgTask, tgDone>>

\* What send task t did with the packet it took: the packet, the push
\* stream it found, and whether the push stream received the payload.
ObserveTaken(t) ==
    taken' = IF Len(input_queue') < Len(input_queue)
             THEN Append(taken, [task |-> t,
                                 packet |-> Head(input_queue),
                                 stream |-> push_stream,
                                 wrote |-> written' # written,
                                 stopped |-> sendTasks'[t].pc = "done",
                                 cleaned |-> /\ push_stream' = Absent
                                             /\ recognizer' = Absent])
             ELSE taken

\* The transcriber alone: the synthesizer is left as constructed.
Transcriber(A) ==
    /\ A
    /\ UNCHANGED taken
    /\ UNCHANGED synthesizerVars

TranscriberTask(t) ==
    /\ SendAudio(t)
    /\ ObserveTaken(t)
    /\ UNCHANGED synthesizerVars

NextTranscriber ==
    \/ \E mode \in InitModes : runs < TranscriberRuns /\ Transcriber(Run(mode))
    \/ \E data \in BOOLEAN, eos \in BOOLEAN :
          packets < TranscriberPackets /\ Transcriber(Put(data, eos))
    \/ \E t \in RunIds : TranscriberTask(t)
    \/ tgDone < TranscriberToggles /\ Transcriber(ToggleStart)
    \/ Transcriber(ToggleResume)
    \/ cleanups < TranscriberCleanups /\ Transcriber(Cleanup)

SpecTranscriber == Init /\ [][NextTranscriber]_vars


\* ------------------------------------------------------------- claims
ResultsOf(u) == {i \in DOMAIN results : results[i].id = u}

\* C1: the correlation ids of the emitted results appear in the order the
\* units were pushed (ids are given in push order), and the queue hands out
\* its records first in, first out, each once.
C1_SubmissionOrder ==
    /\ \A i, j \in DOMAIN results : i < j => results[i].id <= results[j].id
    /\ \A i, j \in DOMAIN text_queue : i < j => text_queue[i].id < text_queue[j].id

\* C2: of the results emitted for a unit, the first one, and only the first
\* one, has is_first_chunk = true when the caller receives it.
C2_FirstChunkFlag ==
    \A u \in Units :
        \A i \in ResultsOf(u) :
            results[i].first <=> (\A j \in ResultsOf(u) : i <= j)

\* The packet of line 154 was emitted for the sentinel that receiver made
\* from a final frame the service sent for unit u.
SentinelEmitted(u) ==
    \E k \in DOMAIN results :
        results[k].unit = u /\ results[k].data = "null" /\ results[k].eos

\* C3: a unit pushed with end_of_llm_stream set yields a final result with
\* end_of_synthesizer_stream = true under its own correlation id, and no
\* result with that id follows it.  Stated for the units whose final frame
\* the service did send and generate has handled.
C3_EndOfStream ==
    \A u \in Units :
        (SentinelEmitted(u) /\ \E i \in ResultsOf(u) : results[i].eol)
        => /\ \E k \in ResultsOf(u) : results[k].eos
           /\ \A k \in ResultsOf(u) :
                 results[k].eos => \A j \in ResultsOf(u) : j <= k

\* C4: each push appends exactly one record to text_queue, and the unit's
\* sender task has sent nothing before that append.
C4_AppendBeforeSend ==
    \A u \in Units :
        /\ appended[u] <= 1
        /\ (u <= pushed /\ pushPc = "idle") => appended[u] = 1
        /\ tasks[u].pc \in {"sending", "flushing", "done"} => appended[u] = 1

C4_Witness ==
    \E u \in Units : tasks[u].pc = "sending" /\ appended[u] = 1 /\ Open(websocket)

\* An audio frame is taken from the connection while text_queue is empty.
EventOnEmptyQueue ==
    /\ genPc = "recv"
    /\ Len(inbox') < Len(inbox)
    /\ Head(inbox).ok /\ Head(inbox).audio
    /\ text_queue = << >>

\* C5: an inbound event that arrives while text_queue is empty is emitted
\* with the metadata that was active before, and generate goes on; the queue
\* is left empty, not popped.
C5_EmptyQueueReusesMetadata ==
    [][EventOnEmptyQueue =>
          /\ genPc' = "y1"
          /\ Len(results') = Len(results) + 1
          /\ meta_info' = meta_info
          /\ text_queue' = << >>]_vars

\* C6: generate dequeues at most one entry for a logical unit, however many
\* events the service returns for it (the consequence the claim draws from
\* its count of unconsumed entries).
C6_OneDequeuePerUnit ==
    \A u \in Units : popsFor[u] <= 1

\* The supervisor's reconnect leaves text_queue and the active metadata as
\* they were: so does every step that installs a new handle.
ReconnectKeepsQueue ==
    [][(websocket'.id # 0 /\ websocket'.id # websocket.id)
          => (text_queue' = text_queue /\ meta_info' = meta_info)]_vars

\* Every result made from a frame the service sent for a unit that was
\* pushed on an earlier connection than the one the frame came on carries
\* that unit's own metadata.
ResultsKeepOriginalMetadata ==
    \A i \in DOMAIN results :
        LET r == results[i] IN
            (r.unit # 0 /\ pushConn[r.unit] # 0 /\ pushConn[r.unit] < r.conn)
                => r.id = r.unit

\* C7: a reconnect by the supervisor leaves text_queue and the active
\* metadata unchanged, and the results of a unit pushed before the
\* connection died are attached to that unit's original metadata after the
\* reconnect.
C7_ReconnectKeepsCorrelation ==
    ReconnectKeepsQueue /\ []ResultsKeepOriginalMetadata

\* C8: once cleanup is closing the connection, none of the sender tasks that
\* were in flight when it began is still in flight.
C8_AllSendersAwaited ==
    clPc = "closing" => \A u \in clInflight : ~InFlight(tasks[u])

\* C9: no call of cleanup raises, and the handle is None when a call ends:
\* twice in a row, with no connection ever opened, with a dead connection.
C9_CleanupIdempotent ==
    [][~clErr' /\ (clDone' # clDone => websocket' = NoHandle)]_vars

C9_Witness ==
    clDone = 2 /\ clPc = "idle" /\ websocket = NoHandle

\* C10: the supervisor's check, run on a handle that is present and not
\* closed, starts no reconnect and leaves the handle as it is; and a handle
\* in the holder is always one whose handshake was completed.
C10_LiveCheckIsNoOp ==
    /\ [](websocket.id # 0 => websocket.bos)
    /\ [][(monPc = "check" /\ monPc' # monPc /\ ~Dead(websocket))
             => (monPc' = "sleep" /\ websocket' = websocket)]_vars

C10_Witness ==
    monLast = "live" /\ monPc = "sleep" /\ Open(websocket)

\* C13: generate never ends because of an error: whatever the frames and
\* the pushes, it is always either receiving or suspended at a yield.
C13_GenerateNeverEnds ==
    genPc \in {"recv", "y1", "y2"}

\* The results generate has emitted for the sentinel made from the final
\* frame the service sent for unit u.
SentinelResults(u) ==
    {i \in DOMAIN results : results[i].unit = u /\ results[i].data = "null"}

\* C15: the sentinel that follows a unit's audio frame is emitted once, as a
\* result with end_of_synthesizer_stream = true, and not as an ordinary
\* result as well.
C15_SentinelEmittedOnce ==
    \A u \in Units :
        /\ Cardinality(SentinelResults(u)) <= 1
        /\ \A i \in SentinelResults(u) : results[i].eos

\* C16: when generate, resumed after an emission, finds last_text_sent set,
\* it resets it along with the first-chunk bookkeeping.
C16_LastTextSentReset ==
    [][(genPc = "y1" /\ genPc' # "y1" /\ last_text_sent)
          => (~first_chunk_generated' /\ ~last_text_sent')]_vars

\* receiver takes a well-formed frame with isFinal set from the connection.
FinalFrameTaken ==
    /\ genPc = "recv"
    /\ Open(websocket) /\ websocket' = websocket
    /\ inbox # << >> /\ inbox' = Tail(inbox)
    /\ Head(inbox).ok /\ Head(inbox).final

\* C17: every frame with isFinal set makes receiver produce the sentinel
\* (generate is handed the frame's audio with the sentinel to follow, or the
\* sentinel itself), also when the frame has no audio payload.
C17_FinalFrameMakesSentinel ==
    [][FinalFrameTaken => (pendingFinal' \/ genMsg' = "null")]_vars

\* C18: once a cleanup has completed and none is running, the connection
\* handle is None.
C18_NoHandleAfterCleanup ==
    (clDone >= 1 /\ clPc = "idle") => websocket = NoHandle

\* C20: while generate is suspended after yielding a result, the active
\* metadata is replaced only by the step of generate that dequeues an entry
\* from text_queue; a push does not replace it.
C20_MetadataChangesOnDequeue ==
    [][(genPc \in {"y1", "y2"} /\ meta_info'.id # meta_info.id)
          => Len(text_queue') < Len(text_queue)]_vars

\* The supervisor is inside establish_connection.
Connecting == monPc \in {"connecting", "handshake"}

\* C11: establish_connection ends by returning None or a connected handle,
\* which the supervisor installs before it sleeps; a failed connect leaves
\* the holder None; and whenever the handle is None or closed the supervisor
\* eventually is in establish_connection again (as long as the model has a
\* connection left to give it), every attempt coming to its end.
C11_SupervisorReconnects ==
    /\ [][(monPc = "connecting" /\ monPc' = "sleep") => websocket' = NoHandle]_vars
    /\ [][(monPc = "handshake" /\ monPc' # "handshake")
             => (monPc' = "sleep" /\ (websocket' = NoHandle \/ Open(websocket')))]_vars
    /\ (Dead(websocket) /\ attempts < WatchConns) ~> Connecting
    /\ Connecting ~> (monPc = "sleep")

\* A second attempt, made after a failed one or after the connection was
\* lost, has installed a live handle.
C11_Witness ==
    attempts = 2 /\ websocket = Installed(2) /\ monPc = "sleep"

\* The number of characters in a sequence of chunks.
RECURSIVE Chars(_)
Chars(chunks) ==
    IF chunks = << >> THEN 0 ELSE Len(Head(chunks)) + Chars(Tail(chunks))

\* C14: synthesized_characters never decreases and changes in no step but
\* the one in which push creates a unit's sender task; in that step, with
\* the task not yet run, it grows by the length of the unit's text, whatever
\* it held before.
C14_CharactersCountedAtPush ==
    [][/\ synthesized_characters' >= synthesized_characters
       /\ synthesized_characters' # synthesized_characters => pushed' = pushed + 1
       /\ pushed' = pushed + 1 =>
             /\ tasks'[pushed'].pc = "wait"
             /\ synthesized_characters' =
                   synthesized_characters + Chars(tasks'[pushed'].left)]_vars

\* Two texts, of one and of two characters, were pushed and the counter
\* holds their sum, after the connection was replaced, both sender tasks
\* have ended and a result was received.
C14_Witness ==
    /\ pushed = 2 /\ synthesized_characters = 3
    /\ tasks[1].pc = "done" /\ tasks[2].pc = "done"
    /\ results # << >> /\ websocket = Installed(2)

\* The messages of unit u that reached a connection, in the order sent.
SentOf(u) == SelectSeq(sent, LAMBDA m : m.unit = u)

\* The flush message is the last message of unit u and its only flush.
FlushIsLast(u) ==
    LET m == SentOf(u) IN
        /\ m # << >>
        /\ m[Len(m)].kind = "flush"
        /\ \A i \in 1..(Len(m) - 1) : m[i].kind = "chunk"

\* C12, as claimed: every unit whose sender task has come to its end without
\* being cancelled (it saw a live connection and went on to send) has its
\* flush message as the last message sent for it.
C12_FlushAlwaysLast ==
    \A u \in Units : ended[u] \in {"completed", "failed"} => FlushIsLast(u)

\* C12, amended: every unit whose sender task has come to its end without
\* being cancelled and without one of its sends raising has its flush
\* message as the last message sent for it, after its text chunks, also when
\* its text is empty.
C12_FlushLastUnlessSendFails ==
    \A u \in Units : ended[u] = "completed" => FlushIsLast(u)

\* A unit with two chunks has been sent through to its flush and its task
\* has returned.
C12_Witness ==
    \E u \in Units : ended[u] = "completed" /\ Len(SentOf(u)) = 3

\* C19: the messages reach the connection in the order the units were
\* pushed: no message of a unit is sent after a message of a later unit.
C19_SendsInSubmissionOrder ==
    \A i, j \in DOMAIN sent : i < j => sent[i].unit <= sent[j].unit

\* Entries of the send tasks' record that carry a payload and no
\* end-of-stream mark.
Audio(e) == e.packet.data # 0 /\ ~e.packet.eos

PayloadsOf(es) == [k \in DOMAIN es |-> es[k].packet.data]

WrittenPayloads == [k \in DOMAIN written |-> written[k].data]

\* The send task that took entry i took nothing after it.
LastOfItsTask(i) ==
    /\ taken[i].stopped
    /\ \A j \in DOMAIN taken : j > i => taken[j].task # taken[i].task

\* An end-of-stream packet is not written, runs cleanup and ends the loop.
EndOfStreamEndsLoop ==
    \A i \in DOMAIN taken :
        taken[i].packet.eos =>
            ~taken[i].wrote /\ taken[i].cleaned /\ LastOfItsTask(i)

\* C21 as stated: the push streams received exactly the payloads of the
\* packets with data taken before an end-of-stream packet, once each and
\* in the order taken, and an end-of-stream packet runs cleanup, ends the
\* loop and is not written, nor is any packet after it.
C21_ForwardsUntilEndOfStream ==
    /\ WrittenPayloads = PayloadsOf(SelectSeq(taken, Audio))
    /\ EndOfStreamEndsLoop

\* A send task reached the write of line 75 with no push stream to write on.
WriteOnAbsentPushStream ==
    \E i \in DOMAIN taken : Audio(taken[i]) /\ taken[i].stream = Absent

\* C22 as stated: no write is attempted on a closed or absent push stream;
\* when toggle_connection reaches cleanup the task it cancelled has ended;
\* after every completed toggle_connection or cleanup call, and after an
\* end-of-stream packet, the push stream and the recognizer are absent; no
\* push stream is closed twice and no recognizer stopped twice.
C22_ShutdownOrderedAndIdempotent ==
    /\ [](~WriteOnAbsentPushStream)
    /\ [](\A i \in DOMAIN taken : taken[i].packet.eos => taken[i].cleaned)
    /\ [](\A s \in RunIds : closes[s] <= 1 /\ stops[s] <= 1)
    /\ [][(tgDone' # tgDone \/ cleanups' # cleanups) =>
             /\ push_stream' = Absent
             /\ recognizer' = Absent
             /\ (tgDone' # tgDone /\ tgPc = "await" =>
                    sendTasks[tgTask].pc = "done")]_vars

====
